---- MODULE Spec2Model ----
(***************************************************************************)
(* Model of the stack-deployment lifecycle of adhavle-aws/mwc-demo:        *)
(*   - OnboardingAgent/src/main.py: the local (offline) template validator *)
(*   - ProvisioningAgent/src/main.py: the four CloudFormation tools and    *)
(*     the agent entrypoint that lets a language model call them           *)
(* The CloudFormation backend and the language model are environments:     *)
(* the backend keeps the stack records, the model picks the tool calls.    *)
(***************************************************************************)
EXTENDS Integers, Sequences, FiniteSets, TLC

(***************************************************************************)
(* Bounds                                                                  *)
(***************************************************************************)
MaxLimit == 5           \* largest explicit limit handed to get_stack_events
MaxNegLimit == 3        \* explicit limits range over -MaxNegLimit..MaxLimit

VARIABLES
    stacks,         \* backend: stack name -> stack record, resources, events
    op,             \* the tool call in progress or last completed
    validatedOK     \* templates validated as valid in the current request

vars == <<stacks, op, validatedOK>>

(***************************************************************************)
(* Python values as produced by yaml.safe_load / json.loads                *)
(***************************************************************************)
ResourcesKey == <<"R", "e", "s", "o", "u", "r", "c", "e", "s">>

NullV == [type |-> "NoneType"]
IntV(n) == [type |-> "int", i |-> n]
StrV(chars) == [type |-> "str", s |-> chars]
ListV(elems) == [type |-> "list", l |-> elems]
DictV(items) == [type |-> "dict", d |-> items]
Item(key, val) == [k |-> key, v |-> val]

Returned(val) == [ok |-> TRUE, v |-> val]
Raised(etype, emsg) == [ok |-> FALSE, exc |-> [type |-> etype, msg |-> emsg]]

\* isinstance(v, dict)
IsDict(v) == v.type = "dict"

\* "Resources" in v
ContainsResources(v) ==
    CASE v.type = "dict" -> Returned(\E n \in 1..Len(v.d) : v.d[n].k = "Resources")
      [] v.type = "list" ->
            Returned(\E n \in 1..Len(v.l) :
                        /\ v.l[n].type = "str"
                        /\ v.l[n].s = ResourcesKey)
      [] v.type = "str" ->
            Returned(\E n \in 1..Len(v.s) :
                        /\ n + Len(ResourcesKey) - 1 <= Len(v.s)
                        /\ SubSeq(v.s, n, n + Len(ResourcesKey) - 1) = ResourcesKey)
      [] OTHER -> Raised("TypeError", "argument of type '" \o v.type \o "' is not iterable")

\* v["Resources"], evaluated only after "Resources" in v held
GetResources(v) ==
    CASE v.type = "dict" ->
            Returned(v.d[CHOOSE n \in 1..Len(v.d) : v.d[n].k = "Resources"].v)
      [] v.type = "list" -> Raised("TypeError", "list indices must be integers or slices, not str")
      [] v.type = "str" -> Raised("TypeError", "string indices must be integers, not 'str'")
      [] OTHER -> Raised("TypeError", "'" \o v.type \o "' object is not subscriptable")

\* len(v)
PyLen(v) ==
    CASE v.type = "dict" -> Returned(Len(v.d))
      [] v.type = "list" -> Returned(Len(v.l))
      [] v.type = "str" -> Returned(Len(v.s))
      [] OTHER -> Raised("TypeError", "object of type '" \o v.type \o "' has no len()")

(***************************************************************************)
(* Template texts and what the two parsers make of them                    *)
(***************************************************************************)
Bucket == DictV(<<Item("Type", StrV(<<"S", "3">>))>>)

T_Valid == "Resources:\n  Bucket:\n    Type: S3"
T_ValidJson == "{\"Resources\":\t{\"Bucket\": {\"Type\": \"S3\"}}}"
T_NoResources == "Description: demo"
T_EmptyMapping == "{}"
T_ResEmptyDict == "Resources: {}"
T_ResEmptyList == "Resources: []"
T_ResList == "Resources: [Bucket]"
T_ResEmptyStr == "Resources: ''"
T_ResStr == "Resources: Bucket"
T_ResInt == "Resources: 5"
T_ResNull == "Resources:"
T_TopList == "- Bucket"
T_TopListRes == "- Resources"
T_TopStr == "Bucket"
T_TopStrRes == "Resources"
T_TopInt == "42"
T_TopNull == ""
T_Broken == "not: [valid, yaml, {"

Templates ==
    { T_Valid, T_ValidJson, T_NoResources, T_EmptyMapping, T_ResEmptyDict,
      T_ResEmptyList, T_ResList, T_ResEmptyStr, T_ResStr, T_ResInt, T_ResNull,
      T_TopList, T_TopListRes, T_TopStr, T_TopStrRes, T_TopInt, T_TopNull,
      T_Broken }

BucketStr == StrV(<<"B", "u", "c", "k", "e", "t">>)

\* yaml.safe_load(template)
SafeLoad(template) ==
    CASE template = T_Valid ->
            Returned(DictV(<<Item("Resources", DictV(<<Item("Bucket", Bucket)>>))>>))
      [] template = T_NoResources ->
            Returned(DictV(<<Item("Description", StrV(<<"d", "e", "m", "o">>))>>))
      [] template = T_EmptyMapping -> Returned(DictV(<<>>))
      [] template = T_ResEmptyDict -> Returned(DictV(<<Item("Resources", DictV(<<>>))>>))
      [] template = T_ResEmptyList -> Returned(DictV(<<Item("Resources", ListV(<<>>))>>))
      [] template = T_ResList -> Returned(DictV(<<Item("Resources", ListV(<<BucketStr>>))>>))
      [] template = T_ResEmptyStr -> Returned(DictV(<<Item("Resources", StrV(<<>>))>>))
      [] template = T_ResStr -> Returned(DictV(<<Item("Resources", BucketStr)>>))
      [] template = T_ResInt -> Returned(DictV(<<Item("Resources", IntV(5))>>))
      [] template = T_ResNull -> Returned(DictV(<<Item("Resources", NullV)>>))
      [] template = T_TopList -> Returned(ListV(<<BucketStr>>))
      [] template = T_TopListRes -> Returned(ListV(<<StrV(ResourcesKey)>>))
      [] template = T_TopStr -> Returned(BucketStr)
      [] template = T_TopStrRes -> Returned(StrV(ResourcesKey))
      [] template = T_TopInt -> Returned(IntV(42))
      [] template = T_TopNull -> Returned(NullV)
      [] template = T_ValidJson ->
            Raised("YAMLError", "found character '\\t' that cannot start any token")
      [] template = T_Broken ->
            Raised("YAMLError", "while parsing a flow node: expected the node content")

\* json.loads(template), reached only for the texts yaml.safe_load rejected
JsonLoads(template) ==
    CASE template = T_ValidJson ->
            Returned(DictV(<<Item("Resources", DictV(<<Item("Bucket", Bucket)>>))>>))
      [] OTHER ->
            Raised("JSONDecodeError", "Expecting value: line 1 column 1 (char 0)")

(***************************************************************************)
(* OnboardingAgent: validate_cloudformation_template (local validator)     *)
(***************************************************************************)
\* try yaml.safe_load; except yaml.YAMLError: json.loads
ParseTemplate(template) ==
    LET y == SafeLoad(template)
    IN  IF y.ok THEN y
        ELSE IF y.exc.type = "YAMLError" THEN JsonLoads(template)
        ELSE y

\* the three except clauses, in the order Python tries them
ValidatorHandler(exc) ==
    CASE exc.type = "JSONDecodeError" ->
            Returned([valid |-> FALSE, errors |-> <<"Invalid JSON: " \o exc.msg>>])
      [] exc.type = "YAMLError" ->
            Returned([valid |-> FALSE, errors |-> <<"Invalid YAML: " \o exc.msg>>])
      [] OTHER ->
            Returned([valid |-> FALSE, errors |-> <<"Validation error: " \o exc.msg>>])

E_NotDict == "Template must be a dictionary/object"
E_NoResources == "Template must contain 'Resources' section"
E_ResNotDict == "'Resources' must be a dictionary"
E_ResEmpty == "'Resources' section cannot be empty"

\* if not isinstance(template_dict, dict): errors.append(...)
CheckTopLevel(td, errors) ==
    IF ~IsDict(td) THEN Append(errors, E_NotDict) ELSE errors

\* if "Resources" not in template_dict: errors.append(...)
CheckHasResources(td, errors) ==
    LET c == ContainsResources(td)
    IN  IF ~c.ok THEN c
        ELSE Returned(IF ~c.v THEN Append(errors, E_NoResources) ELSE errors)

\* if "Resources" in template_dict and not isinstance(template_dict["Resources"], dict)
CheckResourcesIsDict(td, errors) ==
    LET c == ContainsResources(td)
    IN  IF ~c.ok THEN c
        ELSE IF ~c.v THEN Returned(errors)
        ELSE LET r == GetResources(td)
             IN  IF ~r.ok THEN r
                 ELSE Returned(IF ~IsDict(r.v) THEN Append(errors, E_ResNotDict)
                               ELSE errors)

\* the emptiness check left out
CheckResourcesNonEmptySkipped(td, errors) == Returned(errors)

\* if "Resources" in template_dict and len(template_dict["Resources"]) == 0
CheckResourcesNonEmpty(td, errors) ==
    LET c == ContainsResources(td)
    IN  IF ~c.ok THEN c
        ELSE IF ~c.v THEN Returned(errors)
        ELSE LET r == GetResources(td)
             IN  IF ~r.ok THEN r
                 ELSE LET n == PyLen(r.v)
                      IN  IF ~n.ok THEN n
                          ELSE Returned(IF n.v = 0 THEN Append(errors, E_ResEmpty)
                                        ELSE errors)

\* "AWSTemplateFormatVersion" not in template_dict: raises as "Resources" in does
CheckFormatVersion(td, errors) ==
    LET c == ContainsResources(td)
    IN  IF ~c.ok THEN c ELSE Returned(errors)

ValidatorBody(template) ==
    LET p == ParseTemplate(template)
    IN  IF ~p.ok THEN p
        ELSE
        LET e1 == CheckTopLevel(p.v, <<>>)
            e2 == CheckHasResources(p.v, e1)
        IN  IF ~e2.ok THEN e2
            ELSE
            LET e3 == CheckResourcesIsDict(p.v, e2.v)
            IN  IF ~e3.ok THEN e3
                ELSE
                LET e4 == CheckResourcesNonEmpty(p.v, e3.v)
                IN  IF ~e4.ok THEN e4
                    ELSE CheckFormatVersion(p.v, e4.v)

LocalValidate(template) ==
    LET b == ValidatorBody(template)
    IN  IF ~b.ok THEN ValidatorHandler(b.exc)
        ELSE IF b.v # <<>> THEN Returned([valid |-> FALSE, errors |-> b.v])
        ELSE Returned([valid |-> TRUE, message |-> "Template structure is valid"])

(***************************************************************************)
(* The CloudFormation backend behind cfn_client                            *)
(***************************************************************************)
StackNames == {"demo-stack", "other-stack"}

\* the templates handed to the provisioning tools
DeployTemplates == {T_Valid, T_NoResources}

\* the backend provisions only a template that declares resources
BackendAccepts(template) == template = T_Valid

RECURSIVE IntStr(_)
\* str(n) for a natural number
IntStr(n) ==
    IF n < 10
    THEN CASE n = 0 -> "0" [] n = 1 -> "1" [] n = 2 -> "2" [] n = 3 -> "3"
           [] n = 4 -> "4" [] n = 5 -> "5" [] n = 6 -> "6" [] n = 7 -> "7"
           [] n = 8 -> "8" [] n = 9 -> "9"
    ELSE IntStr(n \div 10) \o IntStr(n % 10)

\* str(datetime): the backend's clock is the stack's event count
TimeStr(t) == "2025-01-01 00:00:" \o (IF t < 10 THEN "0" ELSE "") \o IntStr(t)

StackIdOf(name) == "arn:aws:cloudformation:us-east-1:000000000000:stack/" \o name \o "/1"

E_Throttled(api) ==
    "An error occurred (Throttling) when calling the " \o api \o " operation: Rate exceeded"
E_AlreadyExists(name) ==
    "An error occurred (AlreadyExistsException) when calling the CreateStack operation: Stack ["
        \o name \o "] already exists"
E_NotFound(api, name) ==
    "An error occurred (ValidationError) when calling the " \o api
        \o " operation: Stack with id " \o name \o " does not exist"
E_BadTemplate(api) ==
    "An error occurred (ValidationError) when calling the " \o api
        \o " operation: Template format error: At least one Resources member must be defined."

StackEvent(status, reason, t) ==
    [Timestamp |-> t, ResourceType |-> "AWS::CloudFormation::Stack",
     LogicalResourceId |-> "stack", ResourceStatus |-> status,
     ResourceStatusReason |-> reason]

BucketEvent(status, t) ==
    [Timestamp |-> t, ResourceType |-> "AWS::S3::Bucket",
     LogicalResourceId |-> "Bucket", ResourceStatus |-> status]

BucketResource(status) ==
    IF status = "CREATE_IN_PROGRESS"
    THEN [LogicalResourceId |-> "Bucket", ResourceType |-> "AWS::S3::Bucket",
          ResourceStatus |-> status]
    ELSE [LogicalResourceId |-> "Bucket", ResourceType |-> "AWS::S3::Bucket",
          ResourceStatus |-> status, PhysicalResourceId |-> "bucket-1"]

\* the record the backend creates when it accepts a submit call
NewStack(name) ==
    [stack |-> [StackId |-> StackIdOf(name), StackName |-> name,
                StackStatus |-> "CREATE_IN_PROGRESS", CreationTime |-> 0],
     resources |-> <<>>,
     events |-> <<StackEvent("CREATE_IN_PROGRESS", "User Initiated", 0)>>]

\* cfn_client.create_stack(**request)
CreateStackOutcome(cfn, request, throttled) ==
    IF throttled THEN Raised("ClientError", E_Throttled("CreateStack"))
    ELSE IF request.StackName \in DOMAIN cfn
    THEN Raised("ClientError", E_AlreadyExists(request.StackName))
    ELSE IF ~BackendAccepts(request.TemplateBody)
    THEN Raised("ClientError", E_BadTemplate("CreateStack"))
    ELSE Returned([StackId |-> StackIdOf(request.StackName)])

\* cfn_client.describe_stacks(StackName=name)
DescribeStacksOutcome(cfn, name, throttled) ==
    IF throttled THEN Raised("ClientError", E_Throttled("DescribeStacks"))
    ELSE IF name \notin DOMAIN cfn
    THEN Raised("ClientError", E_NotFound("DescribeStacks", name))
    ELSE Returned([Stacks |-> <<cfn[name].stack>>])

\* cfn_client.describe_stack_resources(StackName=name)
DescribeStackResourcesOutcome(cfn, name, throttled) ==
    IF throttled THEN Raised("ClientError", E_Throttled("DescribeStackResources"))
    ELSE IF name \notin DOMAIN cfn
    THEN Raised("ClientError", E_NotFound("DescribeStackResources", name))
    ELSE Returned([StackResources |-> cfn[name].resources])

\* cfn_client.describe_stack_events(StackName=name)
DescribeStackEventsOutcome(cfn, name, throttled) ==
    IF throttled THEN Raised("ClientError", E_Throttled("DescribeStackEvents"))
    ELSE IF name \notin DOMAIN cfn
    THEN Raised("ClientError", E_NotFound("DescribeStackEvents", name))
    ELSE Returned([StackEvents |-> cfn[name].events])

\* cfn_client.validate_template(TemplateBody=template)
ValidateTemplateOutcome(template, throttled) ==
    IF throttled THEN Raised("ClientError", E_Throttled("ValidateTemplate"))
    ELSE IF ~BackendAccepts(template)
    THEN Raised("ClientError", E_BadTemplate("ValidateTemplate"))
    ELSE Returned([Parameters |-> <<>>, Capabilities |-> <<>>])

(***************************************************************************)
(* ProvisioningAgent: the tools                                            *)
(***************************************************************************)
RECURSIVE Join(_)
\* the Python string made of the given characters
Join(chars) == IF chars = <<>> THEN "" ELSE Head(chars) \o Join(Tail(chars))

\* str(v)
PyStr(v) ==
    CASE v.type = "str" -> Join(v.s)
      [] v.type = "int" -> IntStr(v.i)
      [] OTHER -> "None"

\* bool(v)
Truthy(v) ==
    CASE v.type = "dict" -> Len(v.d) > 0
      [] v.type = "list" -> Len(v.l) > 0
      [] v.type = "str" -> Len(v.s) > 0
      [] v.type = "int" -> v.i # 0
      [] OTHER -> FALSE

\* d.get(key, default) on a backend record
Get(r, key, default) == IF key \in DOMAIN r THEN r[key] ELSE default

\* except ClientError as e: anything else propagates to the caller
ToolExceptClientErrorOnly(prefix, exc) ==
    IF exc.type = "ClientError"
    THEN Returned([success |-> FALSE, error |-> exc.msg, message |-> prefix \o exc.msg])
    ELSE [ok |-> FALSE, exc |-> exc]

\* except Exception as e: of the three success/error tools
ToolExcept(prefix, exc) ==
    Returned([success |-> FALSE, error |-> exc.msg, message |-> prefix \o exc.msg])

\* cfn_parameters = [...] if parameters else []
ConvertParameters(parameters) ==
    IF ~Truthy(parameters) THEN Returned(<<>>)
    ELSE IF parameters.type = "dict"
    THEN Returned([n \in 1..Len(parameters.d) |->
                    [ParameterKey |-> parameters.d[n].k,
                     ParameterValue |-> PyStr(parameters.d[n].v)]])
    ELSE Raised("AttributeError",
                "'" \o parameters.type \o "' object has no attribute 'items'")

Capabilities == <<"CAPABILITY_IAM", "CAPABILITY_NAMED_IAM", "CAPABILITY_AUTO_EXPAND">>
OnFailure == "ROLLBACK"
Tags == <<[Key |-> "ManagedBy", Value |-> "MWCAgent"],
          [Key |-> "Agent", Value |-> "ProvisioningAgent"]>>

\* create_stack with OnFailure='DO_NOTHING'
CreateStackRequestNoRollback(stack_name, template_body, cfn_parameters) ==
    [StackName |-> stack_name, TemplateBody |-> template_body,
     Parameters |-> cfn_parameters, Capabilities |-> Capabilities,
     OnFailure |-> "DO_NOTHING", Tags |-> Tags]

\* the keyword arguments of cfn_client.create_stack
CreateStackRequest(stack_name, template_body, cfn_parameters) ==
    [StackName |-> stack_name, TemplateBody |-> template_body,
     Parameters |-> cfn_parameters, Capabilities |-> Capabilities,
     OnFailure |-> OnFailure, Tags |-> Tags]

DeployReturn(stack_name, response) ==
    Returned([success |-> TRUE, stack_id |-> response.StackId,
              status |-> "CREATE_IN_PROGRESS",
              message |-> "Stack " \o stack_name \o " deployment initiated successfully"])

DeployExcept(exc) == ToolExcept("Failed to deploy stack: ", exc)

\* resources = [{...} for r in resources_response['StackResources']]
FormatResources(rs) ==
    [n \in 1..Len(rs) |->
        [logical_id |-> rs[n].LogicalResourceId,
         physical_id |-> Get(rs[n], "PhysicalResourceId", "N/A"),
         type |-> rs[n].ResourceType,
         status |-> rs[n].ResourceStatus]]

\* outputs = {o['OutputKey']: o.get('OutputValue', 'N/A') for o in stack['Outputs']}
FormatOutputs(stack) ==
    IF "Outputs" \in DOMAIN stack
    THEN [n \in 1..Len(stack.Outputs) |->
            [k |-> stack.Outputs[n].OutputKey,
             v |-> Get(stack.Outputs[n], "OutputValue", "N/A")]]
    ELSE <<>>

StatusReturn(stack, resources_response) ==
    Returned([success |-> TRUE,
              stack_name |-> stack.StackName,
              status |-> stack.StackStatus,
              resources |-> FormatResources(resources_response.StackResources),
              outputs |-> FormatOutputs(stack),
              creation_time |-> IF "CreationTime" \in DOMAIN stack
                                THEN TimeStr(stack.CreationTime) ELSE "N/A",
              last_updated |-> IF "LastUpdatedTime" \in DOMAIN stack
                               THEN TimeStr(stack.LastUpdatedTime) ELSE "N/A"])

StatusExcept(exc) == ToolExcept("Failed to get stack status: ", exc)

\* response['Stacks'][0]
FirstStack(response) ==
    IF Len(response.Stacks) = 0 THEN Raised("IndexError", "list index out of range")
    ELSE Returned(response.Stacks[1])

ValidateReturn(response) ==
    Returned([valid |-> TRUE,
              description |-> Get(response, "Description", "No description"),
              parameters |-> [n \in 1..Len(Get(response, "Parameters", <<>>)) |->
                                response.Parameters[n].ParameterKey],
              capabilities |-> Get(response, "Capabilities", <<>>),
              message |-> "Template is valid"])

\* the remote validator answering in the local validator's shape
ValidateExceptErrorsList(exc) ==
    Returned([valid |-> FALSE, errors |-> <<exc.msg>>])

ValidateExcept(exc) ==
    Returned([valid |-> FALSE, error |-> exc.msg,
              message |-> "Template validation failed: " \o exc.msg])

DefaultLimit == 10

\* seq[-limit:], the oldest events instead of the newest
SliceTail(seq, limit) ==
    IF limit >= Len(seq) \/ limit <= 0 THEN seq
    ELSE SubSeq(seq, Len(seq) - limit + 1, Len(seq))

\* seq[:limit] for an integer limit
Slice(seq, limit) ==
    IF limit >= 0
    THEN SubSeq(seq, 1, IF limit < Len(seq) THEN limit ELSE Len(seq))
    ELSE SubSeq(seq, 1, Len(seq) + limit)

\* response['StackEvents'][:limit]
SliceEvents(response, limit) ==
    IF limit.type = "int" THEN Returned(Slice(response.StackEvents, limit.i))
    ELSE Raised("TypeError",
                "slice indices must be integers or None or have an __index__ method")

FormatEvent(e) ==
    [timestamp |-> TimeStr(e.Timestamp),
     resource_type |-> e.ResourceType,
     logical_id |-> e.LogicalResourceId,
     status |-> e.ResourceStatus,
     reason |-> Get(e, "ResourceStatusReason", "N/A")]

EventsReturn(events) ==
    Returned([success |-> TRUE,
              events |-> [n \in 1..Len(events) |-> FormatEvent(events[n])]])

EventsExcept(exc) == ToolExcept("Failed to get stack events: ", exc)

(***************************************************************************)
(* Inputs the language model may hand to the tools                         *)
(***************************************************************************)
EnvChars == <<"p", "r", "o", "d">>

ParameterChoices ==
    { NullV,
      DictV(<<>>),
      DictV(<<Item("Env", StrV(EnvChars))>>),
      DictV(<<Item("Env", StrV(EnvChars)), Item("Count", IntV(2))>>),
      ListV(<<StrV(EnvChars)>>) }

NoLimit == [given |-> FALSE]
GivenLimit(v) == [given |-> TRUE, v |-> v]

LimitChoices ==
    {NoLimit} \cup {GivenLimit(IntV(n)) : n \in (0 - MaxNegLimit)..MaxLimit}
              \cup {GivenLimit(StrV(<<"3">>))}

\* def get_stack_events(stack_name, limit: int = 10)
EffectiveLimit(limit) == IF limit.given THEN limit.v ELSE IntV(DefaultLimit)

BackendCall(api, request, outcome) ==
    [api |-> api, request |-> request, outcome |-> outcome]

Done(name, args, calls, outcome) ==
    [name |-> name, args |-> args, pc |-> "done", calls |-> calls, outcome |-> outcome]

(***************************************************************************)
(* Initial state: no stack exists, no tool has been called                 *)
(***************************************************************************)
NoStacks == [n \in {} |-> NewStack(n)]

Init ==
    /\ stacks = NoStacks
    /\ op = [name |-> "none", args |-> [none |-> TRUE], pc |-> "done", calls |-> <<>>,
             outcome |-> Returned([none |-> TRUE])]
    /\ validatedOK = {}

(***************************************************************************)
(* OnboardingAgent tool                                                    *)
(***************************************************************************)
OnboardingValidate(template) ==
    /\ op.pc = "done"
    /\ op' = Done("local_validate", [template |-> template], <<>>,
                  LocalValidate(template))
    /\ UNCHANGED <<stacks, validatedOK>>

(***************************************************************************)
(* ProvisioningAgent: invoke and the tool calls the agent may make         *)
(***************************************************************************)
\* a new request: a fresh Agent with the four tools and no history
Invoke ==
    /\ op.pc = "done"
    /\ validatedOK' = {}
    /\ op' = Done("invoke", [none |-> TRUE], <<>>, Returned([none |-> TRUE]))
    /\ UNCHANGED stacks

ValidateOutcome(out) ==
    IF out.ok THEN ValidateReturn(out.v) ELSE ValidateExcept(out.exc)

ProvisioningValidate(template_body, throttled) ==
    LET out == ValidateTemplateOutcome(template_body, throttled)
        call == BackendCall("ValidateTemplate", [TemplateBody |-> template_body], out)
        res == ValidateOutcome(out)
    IN  /\ op.pc = "done"
        /\ op' = Done("validate", [template_body |-> template_body], <<call>>, res)
        /\ validatedOK' = IF res.ok /\ res.v.valid
                          THEN validatedOK \cup {template_body}
                          ELSE validatedOK
        /\ UNCHANGED stacks

DeployCloudformationStack(stack_name, template_body, parameters, throttled) ==
    LET conv == ConvertParameters(parameters)
        args == [stack_name |-> stack_name, template_body |-> template_body,
                 parameters |-> parameters]
    IN  /\ op.pc = "done"
        /\ UNCHANGED validatedOK
        /\ IF ~conv.ok
           THEN /\ op' = Done("deploy", args, <<>>, DeployExcept(conv.exc))
                /\ UNCHANGED stacks
           ELSE LET request == CreateStackRequest(stack_name, template_body, conv.v)
                    out == CreateStackOutcome(stacks, request, throttled)
                    call == BackendCall("CreateStack", request, out)
                IN  /\ op' = Done("deploy", args, <<call>>,
                                  IF out.ok THEN DeployReturn(stack_name, out.v)
                                  ELSE DeployExcept(out.exc))
                    /\ stacks' = IF out.ok
                                 THEN [n \in DOMAIN stacks \cup {stack_name} |->
                                        IF n = stack_name THEN NewStack(n)
                                        ELSE stacks[n]]
                                 ELSE stacks

\* how often the backend has changed the stack: it logs one event per change
BackendVersion(stack_name) ==
    IF stack_name \in DOMAIN stacks THEN Len(stacks[stack_name].events) ELSE 0

\* what the caller holds from the call it made just before this one, when
\* that was a successful get_stack_status of the same stack
PreviousStatus(stack_name) ==
    IF /\ op.name = "status"
       /\ op.pc = "done"
       /\ op.args.stack_name = stack_name
       /\ op.outcome.ok
       /\ op.outcome.v.success
    THEN [some |-> TRUE, epoch |-> op.epoch, status |-> op.outcome.v.status,
          resources |-> op.outcome.v.resources]
    ELSE [some |-> FALSE]

\* a completed get_stack_status, with the backend versions at its first and
\* last read and the result of the call before it
StatusDone(args, calls, outcome, epoch, finished, previous) ==
    [name |-> "status", args |-> args, pc |-> "done", calls |-> calls,
     outcome |-> outcome, epoch |-> epoch, finished |-> finished,
     previous |-> previous]

\* get_stack_status up to and including stack = response['Stacks'][0]
GetStackStatusDescribe(stack_name, throttled) ==
    LET out == DescribeStacksOutcome(stacks, stack_name, throttled)
        call == BackendCall("DescribeStacks", [StackName |-> stack_name], out)
        args == [stack_name |-> stack_name]
        first == IF out.ok THEN FirstStack(out.v) ELSE out
        epoch == BackendVersion(stack_name)
        previous == PreviousStatus(stack_name)
    IN  /\ op.pc = "done"
        /\ op' = IF first.ok
                 THEN [name |-> "status", args |-> args, pc |-> "described",
                       calls |-> <<call>>, stack |-> first.v,
                       epoch |-> epoch, previous |-> previous]
                 ELSE StatusDone(args, <<call>>, StatusExcept(first.exc),
                                 epoch, epoch, previous)
        /\ UNCHANGED <<stacks, validatedOK>>

\* describe_stack_resources retried once when the first attempt fails
GetStackStatusResourcesRetry(throttled) ==
    /\ op.pc = "described"
    /\ LET out == DescribeStackResourcesOutcome(stacks, op.args.stack_name, throttled)
           call == BackendCall("DescribeStackResources",
                               [StackName |-> op.args.stack_name], out)
       IN  op' = IF ~out.ok /\ Len(op.calls) = 1
                 THEN [op EXCEPT !.calls = Append(@, call)]
                 ELSE StatusDone(op.args, Append(op.calls, call),
                                 IF out.ok THEN StatusReturn(op.stack, out.v)
                                 ELSE StatusExcept(out.exc),
                                 op.epoch, BackendVersion(op.args.stack_name),
                                 op.previous)
    /\ UNCHANGED <<stacks, validatedOK>>

\* a poller that also removes a stack it finds rolled back
GetStackStatusResourcesCleanup(throttled) ==
    /\ op.pc = "described"
    /\ LET out == DescribeStackResourcesOutcome(stacks, op.args.stack_name, throttled)
           call == BackendCall("DescribeStackResources",
                               [StackName |-> op.args.stack_name], out)
       IN  /\ op' = StatusDone(op.args, Append(op.calls, call),
                               IF out.ok THEN StatusReturn(op.stack, out.v)
                               ELSE StatusExcept(out.exc),
                               op.epoch, BackendVersion(op.args.stack_name),
                               op.previous)
           /\ stacks' = IF out.ok /\ op.stack.StackStatus = "ROLLBACK_COMPLETE"
                        THEN [n \in DOMAIN stacks \ {op.args.stack_name} |-> stacks[n]]
                        ELSE stacks
    /\ UNCHANGED validatedOK

\* get_stack_status from describe_stack_resources to its return
GetStackStatusResources(throttled) ==
    /\ op.pc = "described"
    /\ LET out == DescribeStackResourcesOutcome(stacks, op.args.stack_name, throttled)
           call == BackendCall("DescribeStackResources",
                               [StackName |-> op.args.stack_name], out)
       IN  op' = StatusDone(op.args, Append(op.calls, call),
                            IF out.ok THEN StatusReturn(op.stack, out.v)
                            ELSE StatusExcept(out.exc),
                            op.epoch, BackendVersion(op.args.stack_name),
                            op.previous)
    /\ UNCHANGED <<stacks, validatedOK>>

\* the body of get_stack_events once the backend has answered
EventsOutcome(out, limit) ==
    IF ~out.ok THEN EventsExcept(out.exc)
    ELSE LET sl == SliceEvents(out.v, EffectiveLimit(limit))
         IN  IF sl.ok THEN EventsReturn(sl.v) ELSE EventsExcept(sl.exc)

GetStackEvents(stack_name, limit, throttled) ==
    LET out == DescribeStackEventsOutcome(stacks, stack_name, throttled)
        call == BackendCall("DescribeStackEvents", [StackName |-> stack_name], out)
    IN  /\ op.pc = "done"
        /\ op' = Done("events", [stack_name |-> stack_name, limit |-> limit],
                      <<call>>, EventsOutcome(out, limit))
        /\ UNCHANGED <<stacks, validatedOK>>

(***************************************************************************)
(* The backend provisions on its own, between any two tool steps           *)
(***************************************************************************)
Provision(name, status, resources, event) ==
    stacks' = [stacks EXCEPT
                ![name].stack.StackStatus = status,
                ![name].resources = resources,
                ![name].events = <<event>> \o stacks[name].events]

Clock(name) == Len(stacks[name].events)

BackendStartResource(name) ==
    /\ name \in DOMAIN stacks
    /\ stacks[name].stack.StackStatus = "CREATE_IN_PROGRESS"
    /\ stacks[name].resources = <<>>
    /\ Provision(name, "CREATE_IN_PROGRESS",
                 <<BucketResource("CREATE_IN_PROGRESS")>>,
                 BucketEvent("CREATE_IN_PROGRESS", Clock(name)))
    /\ UNCHANGED <<op, validatedOK>>

BackendFinishResource(name) ==
    /\ name \in DOMAIN stacks
    /\ stacks[name].stack.StackStatus = "CREATE_IN_PROGRESS"
    /\ stacks[name].resources = <<BucketResource("CREATE_IN_PROGRESS")>>
    /\ Provision(name, "CREATE_IN_PROGRESS",
                 <<BucketResource("CREATE_COMPLETE")>>,
                 BucketEvent("CREATE_COMPLETE", Clock(name)))
    /\ UNCHANGED <<op, validatedOK>>

BackendCompleteStack(name) ==
    /\ name \in DOMAIN stacks
    /\ stacks[name].stack.StackStatus = "CREATE_IN_PROGRESS"
    /\ stacks[name].resources = <<BucketResource("CREATE_COMPLETE")>>
    /\ stacks' = [stacks EXCEPT
                    ![name].stack =
                        [StackId |-> @.StackId, StackName |-> @.StackName,
                         StackStatus |-> "CREATE_COMPLETE",
                         CreationTime |-> @.CreationTime,
                         Outputs |-> <<[OutputKey |-> "BucketName",
                                        OutputValue |-> "bucket-1"]>>],
                    ![name].events =
                        <<StackEvent("CREATE_COMPLETE", "Completed", Clock(name))>> \o @]
    /\ UNCHANGED <<op, validatedOK>>

BackendFailResource(name) ==
    /\ name \in DOMAIN stacks
    /\ stacks[name].stack.StackStatus = "CREATE_IN_PROGRESS"
    /\ stacks[name].resources = <<BucketResource("CREATE_IN_PROGRESS")>>
    /\ Provision(name, "CREATE_IN_PROGRESS",
                 <<BucketResource("CREATE_FAILED")>>,
                 BucketEvent("CREATE_FAILED", Clock(name)))
    /\ UNCHANGED <<op, validatedOK>>

\* OnFailure=ROLLBACK: the stack turns to rollback once a resource has failed
BackendStartRollback(name) ==
    /\ name \in DOMAIN stacks
    /\ stacks[name].stack.StackStatus = "CREATE_IN_PROGRESS"
    /\ stacks[name].resources = <<BucketResource("CREATE_FAILED")>>
    /\ Provision(name, "ROLLBACK_IN_PROGRESS",
                 <<BucketResource("CREATE_FAILED")>>,
                 StackEvent("ROLLBACK_IN_PROGRESS",
                            "The following resource(s) failed to create: [Bucket].",
                            Clock(name)))
    /\ UNCHANGED <<op, validatedOK>>

BackendDeleteResource(name) ==
    /\ name \in DOMAIN stacks
    /\ stacks[name].stack.StackStatus = "ROLLBACK_IN_PROGRESS"
    /\ stacks[name].resources = <<BucketResource("CREATE_FAILED")>>
    /\ Provision(name, "ROLLBACK_IN_PROGRESS",
                 <<BucketResource("DELETE_COMPLETE")>>,
                 BucketEvent("DELETE_COMPLETE", Clock(name)))
    /\ UNCHANGED <<op, validatedOK>>

BackendRollbackComplete(name) ==
    /\ name \in DOMAIN stacks
    /\ stacks[name].stack.StackStatus = "ROLLBACK_IN_PROGRESS"
    /\ stacks[name].resources = <<BucketResource("DELETE_COMPLETE")>>
    /\ Provision(name, "ROLLBACK_COMPLETE",
                 <<BucketResource("DELETE_COMPLETE")>>,
                 StackEvent("ROLLBACK_COMPLETE", "Rolled back", Clock(name)))
    /\ UNCHANGED <<op, validatedOK>>

Backend ==
    \E name \in StackNames :
        \/ BackendStartResource(name)
        \/ BackendFinishResource(name)
        \/ BackendCompleteStack(name)
        \/ BackendFailResource(name)
        \/ BackendStartRollback(name)
        \/ BackendDeleteResource(name)
        \/ BackendRollbackComplete(name)

Next ==
    \/ \E template \in Templates : OnboardingValidate(template)
    \/ Invoke
    \/ \E template \in DeployTemplates, throttled \in BOOLEAN :
          ProvisioningValidate(template, throttled)
    \/ \E name \in StackNames, template \in DeployTemplates,
          parameters \in ParameterChoices, throttled \in BOOLEAN :
          DeployCloudformationStack(name, template, parameters, throttled)
    \/ \E name \in StackNames, throttled \in BOOLEAN :
          GetStackStatusDescribe(name, throttled)
    \/ \E throttled \in BOOLEAN : GetStackStatusResources(throttled)
    \/ \E name \in StackNames, limit \in LimitChoices, throttled \in BOOLEAN :
          GetStackEvents(name, limit, throttled)
    \/ Backend

Spec == Init /\ [][Next]_vars

(***************************************************************************)
(* Properties                                                              *)
(***************************************************************************)
Range(seq) == {seq[n] : n \in 1..Len(seq)}
Min(a, b) == IF a < b THEN a ELSE b
ToolDone(name) == op.name = name /\ op.pc = "done"
ToolResult == op.outcome.v

\* C1: within a request, every create_stack call carries a template that a
\* validation of the same request has already reported as valid; a template
\* that validation rejects (or never saw) is never submitted.
C1_SubmitOnlyAfterValidation ==
    ToolDone("deploy") =>
        \A n \in 1..Len(op.calls) :
            op.calls[n].api = "CreateStack" =>
                op.calls[n].request.TemplateBody \in validatedOK

NonPositiveOrAbsent(limit) ==
    \/ ~limit.given
    \/ limit.v.type = "int" /\ limit.v.i <= 0

\* C2: get_stack_events with an absent, zero or negative limit returns what
\* it returns for limit=10 on the same backend answer.
C2_NonPositiveLimitIsTen ==
    (ToolDone("events") /\ NonPositiveOrAbsent(op.args.limit)) =>
        op.outcome = EventsOutcome(op.calls[1].outcome, GivenLimit(IntV(10)))

PositiveLimit(limit) == limit.given /\ limit.v.type = "int" /\ limit.v.i > 0

EventsAnswered ==
    /\ ToolDone("events")
    /\ PositiveLimit(op.args.limit)
    /\ op.calls[1].outcome.ok

\* C3: for a positive limit L and a backend list of n events, a successful
\* get_stack_events returns min(L, n) events and the i-th one is the
\* formatted i-th backend event (a prefix in backend order).
C3_EventsArePrefix ==
    EventsAnswered =>
        LET backend == op.calls[1].outcome.v.StackEvents
            L == op.args.limit.v.i
        IN  /\ op.outcome.ok
            /\ ToolResult.success
            /\ Len(ToolResult.events) = Min(L, Len(backend))
            /\ \A n \in 1..Len(ToolResult.events) :
                /\ ToolResult.events[n].timestamp = TimeStr(backend[n].Timestamp)
                /\ ToolResult.events[n].resource_type = backend[n].ResourceType
                /\ ToolResult.events[n].logical_id = backend[n].LogicalResourceId
                /\ ToolResult.events[n].status = backend[n].ResourceStatus
                /\ ToolResult.events[n].reason =
                        IF "ResourceStatusReason" \in DOMAIN backend[n]
                        THEN backend[n].ResourceStatusReason ELSE "N/A"

\* a truncating call: the limit is smaller than the backend list, which has
\* events that differ from one another
C3_Witness ==
    /\ EventsAnswered
    /\ op.args.limit.v.i = 2
    /\ Len(op.calls[1].outcome.v.StackEvents) = 4
    /\ Len(ToolResult.events) = 2
    /\ ToolResult.events[1] # ToolResult.events[2]

HasKey(td, key) == \E n \in 1..Len(td.d) : td.d[n].k = key
ValueOf(td, key) == td.d[CHOOSE n \in 1..Len(td.d) : td.d[n].k = key].v
IsEmptyValue(v) ==
    \/ v.type = "dict" /\ v.d = <<>>
    \/ v.type = "list" /\ v.l = <<>>
    \/ v.type = "str" /\ v.s = <<>>

\* the structural checks a top-level mapping violates
ViolatedChecks(td) ==
    (IF ~HasKey(td, "Resources") THEN {E_NoResources} ELSE {})
    \cup (IF HasKey(td, "Resources") /\ ValueOf(td, "Resources").type # "dict"
          THEN {E_ResNotDict} ELSE {})
    \cup (IF HasKey(td, "Resources") /\ IsEmptyValue(ValueOf(td, "Resources"))
          THEN {E_ResEmpty} ELSE {})

ParsedMapping ==
    /\ ToolDone("local_validate")
    /\ ParseTemplate(op.args.template).ok
    /\ ParseTemplate(op.args.template).v.type = "dict"

\* C4: for a template that parses to a mapping and violates structural
\* checks, the local validator returns valid=false and its errors are
\* exactly the violated checks, one entry each (Resources of any non-mapping
\* type gives "must be a dictionary", empty Resources gives "cannot be empty").
C4_AllStructuralErrors ==
    (ParsedMapping /\ ViolatedChecks(ParseTemplate(op.args.template).v) # {}) =>
        /\ op.outcome.ok
        /\ ~ToolResult.valid
        /\ Range(ToolResult.errors) = ViolatedChecks(ParseTemplate(op.args.template).v)
        /\ Len(ToolResult.errors) =
                Cardinality(ViolatedChecks(ParseTemplate(op.args.template).v))

ParsedNonMapping ==
    /\ ToolDone("local_validate")
    /\ ParseTemplate(op.args.template).ok
    /\ ParseTemplate(op.args.template).v.type # "dict"

\* C5: a template that parses to a non-mapping top-level value is rejected
\* with an errors list containing "Template must be a dictionary/object".
C5_NonMappingReported ==
    ParsedNonMapping =>
        /\ op.outcome.ok
        /\ ~ToolResult.valid
        /\ E_NotDict \in Range(ToolResult.errors)

\* C6: the local validator answers valid=true only when the parsed template
\* is a mapping whose Resources value is a mapping with at least one entry.
C6_ValidOnlyForNonEmptyResources ==
    (ToolDone("local_validate") /\ op.outcome.ok /\ ToolResult.valid) =>
        LET p == ParseTemplate(op.args.template)
        IN  /\ p.ok
            /\ p.v.type = "dict"
            /\ \E n \in 1..Len(p.v.d) :
                /\ p.v.d[n].k = "Resources"
                /\ p.v.d[n].v.type = "dict"
                /\ Len(p.v.d[n].v.d) >= 1

\* a template only the JSON parser reads is accepted
C6_Witness ==
    /\ ToolDone("local_validate")
    /\ op.args.template = T_ValidJson
    /\ ToolResult.valid

IsValidation == ToolDone("local_validate") \/ ToolDone("validate")
CarriesErrors == "errors" \in DOMAIN ToolResult \/ "error" \in DOMAIN ToolResult
CarriesMessage == "message" \in DOMAIN ToolResult

\* C7 as claimed: every validation result, local or remote, carries errors
\* exactly when valid=false, a message exactly when valid=true, never both.
C7_ErrorsXorMessage ==
    (IsValidation /\ op.outcome.ok) =>
        /\ CarriesErrors <=> ~ToolResult.valid
        /\ CarriesMessage <=> ToolResult.valid
        /\ ~(CarriesErrors /\ CarriesMessage)

\* C7 as amended: a local result carries an errors list exactly when
\* valid=false and a message exactly when valid=true, never both; a remote
\* result always carries a message and carries an error string exactly when
\* valid=false, so a remote rejection carries both.
C7_LocalXorRemoteBoth ==
    /\ (ToolDone("local_validate") /\ op.outcome.ok) =>
          /\ "errors" \in DOMAIN ToolResult <=> ~ToolResult.valid
          /\ "message" \in DOMAIN ToolResult <=> ToolResult.valid
          /\ "error" \notin DOMAIN ToolResult
    /\ (ToolDone("validate") /\ op.outcome.ok) =>
          /\ "message" \in DOMAIN ToolResult
          /\ "error" \in DOMAIN ToolResult <=> ~ToolResult.valid
          /\ "errors" \notin DOMAIN ToolResult

\* the backend rejects a template and the remote validator reports it
C7_Witness ==
    /\ ToolDone("validate")
    /\ ~op.calls[1].outcome.ok
    /\ ~ToolResult.valid
    /\ ToolResult.error = E_BadTemplate("ValidateTemplate")

EmptyParameters(parameters) ==
    \/ parameters.type = "NoneType"
    \/ parameters.type = "dict" /\ parameters.d = <<>>

\* C8: every create_stack call carries the three capabilities, OnFailure
\* ROLLBACK and the two provenance tags; absent and empty parameters both
\* give an empty parameter list; a successful result holds only the backend's
\* stack id, CREATE_IN_PROGRESS and the message naming the stack.
C8_FixedSubmitOptions ==
    ToolDone("deploy") =>
        \A n \in 1..Len(op.calls) :
            LET c == op.calls[n]
            IN  /\ c.api = "CreateStack"
                /\ c.request.StackName = op.args.stack_name
                /\ c.request.TemplateBody = op.args.template_body
                /\ c.request.Capabilities =
                      <<"CAPABILITY_IAM", "CAPABILITY_NAMED_IAM", "CAPABILITY_AUTO_EXPAND">>
                /\ c.request.OnFailure = "ROLLBACK"
                /\ c.request.Tags = <<[Key |-> "ManagedBy", Value |-> "MWCAgent"],
                                      [Key |-> "Agent", Value |-> "ProvisioningAgent"]>>
                /\ EmptyParameters(op.args.parameters) => c.request.Parameters = <<>>
                /\ c.outcome.ok =>
                      ToolResult =
                        [success |-> TRUE, stack_id |-> c.outcome.v.StackId,
                         status |-> "CREATE_IN_PROGRESS",
                         message |-> "Stack " \o op.args.stack_name
                                        \o " deployment initiated successfully"]

\* a submit with an empty parameters mapping that the backend accepts
C8_Witness ==
    /\ ToolDone("deploy")
    /\ op.args.parameters = DictV(<<>>)
    /\ Len(op.calls) = 1
    /\ op.calls[1].outcome.ok
    /\ op.calls[1].request.Parameters = <<>>

Apis(calls) == [n \in 1..Len(calls) |-> calls[n].api]

DeployDoesNotWait ==
    ToolDone("deploy") =>
        /\ Apis(op.calls) \in {<<>>, <<"CreateStack">>}
        /\ ToolResult.success =>
              /\ Apis(op.calls) = <<"CreateStack">>
              /\ ToolResult.status = "CREATE_IN_PROGRESS"
              /\ ToolResult.stack_id = op.calls[1].outcome.v.StackId

EventsSingleRoundTrip ==
    ToolDone("events") => Apis(op.calls) = <<"DescribeStackEvents">>

\* C9 as claimed: deploy makes one submit call and returns
\* CREATE_IN_PROGRESS without a status read; status retrieval and event
\* retrieval each complete after a single backend round trip.
C9_SingleRoundTrip ==
    /\ DeployDoesNotWait
    /\ EventsSingleRoundTrip
    /\ ToolDone("status") => Len(op.calls) = 1

\* C9 as amended: deploy makes at most one submit call (exactly one on
\* success) and returns CREATE_IN_PROGRESS with the backend's stack id without
\* a status read; event retrieval makes exactly one backend call; status
\* retrieval makes at most two backend calls, describe_stacks once and then
\* describe_stack_resources once, and exactly those two on success.
C9_BoundedRoundTrips ==
    /\ DeployDoesNotWait
    /\ EventsSingleRoundTrip
    /\ op.name = "status" =>
          /\ op.pc = "described" => Apis(op.calls) = <<"DescribeStacks">>
          /\ op.pc = "done" =>
                /\ Apis(op.calls) \in {<<"DescribeStacks">>,
                                       <<"DescribeStacks", "DescribeStackResources">>}
                /\ ToolResult.success => Len(op.calls) = 2

\* a status retrieval that succeeded after its two reads
C9_Witness ==
    /\ ToolDone("status")
    /\ ToolResult.success
    /\ Len(op.calls) = 2

IsTool == op.name \in {"deploy", "status", "events", "validate", "local_validate"}
Failed(result) ==
    IF "success" \in DOMAIN result THEN ~result.success ELSE ~result.valid

\* C10: every completed tool call returns a result, none raises; when a
\* backend call failed the result is success=false (valid=false for the
\* remote validator) with the backend's message unchanged in error; a failed
\* result holds nothing but the flag, the error and the message.
C10_FailuresAreResults ==
    (IsTool /\ op.pc = "done") =>
        /\ op.outcome.ok
        /\ \A n \in 1..Len(op.calls) :
              ~op.calls[n].outcome.ok =>
                  /\ Failed(ToolResult)
                  /\ ToolResult.error = op.calls[n].outcome.exc.msg
        /\ (op.name = "deploy" /\ ~ConvertParameters(op.args.parameters).ok) =>
              Failed(ToolResult)
        /\ (op.name = "events" /\ op.args.limit.given
                /\ op.args.limit.v.type # "int") => Failed(ToolResult)
        /\ (op.name = "local_validate" /\ ~ParseTemplate(op.args.template).ok) =>
              Failed(ToolResult)
        /\ Failed(ToolResult) =>
              DOMAIN ToolResult \in {{"success", "error", "message"},
                                     {"valid", "error", "message"},
                                     {"valid", "errors"}}

\* describe_stacks answered, describe_stack_resources then failed
C10_Witness ==
    /\ ToolDone("status")
    /\ Len(op.calls) = 2
    /\ op.calls[1].outcome.ok
    /\ ~op.calls[2].outcome.ok
    /\ ~ToolResult.success

StatusStep == op' # op /\ op'.name = "status"

SuccessiveQuietStatus ==
    /\ ToolDone("status")
    /\ ToolResult.success
    /\ op.previous.some
    /\ op.previous.epoch = op.finished

\* C11: a get_stack_status step never changes the backend's record of any
\* stack, and a successful call that directly follows a successful call for
\* the same stack, with no backend change from the first read of the earlier
\* call to the last read of the later one, returns the same status and the
\* same resources list.
C11_StatusIsReadOnly ==
    [][ /\ StatusStep => stacks' = stacks
        /\ SuccessiveQuietStatus' =>
              /\ ToolResult'.status = op'.previous.status
              /\ ToolResult'.resources = op'.previous.resources ]_vars

\* a second successful call on an unchanged stack that has a resource
C11_Witness ==
    /\ SuccessiveQuietStatus
    /\ Len(ToolResult.resources) = 1
    /\ op.args.stack_name \in DOMAIN stacks

BucketOutputs == <<[k |-> "BucketName", v |-> "bucket-1"]>>

\* every (status, outputs, resources) a stack passes through at the backend,
\* as the tool would report it
BackendSnapshots ==
    { [status |-> "CREATE_IN_PROGRESS", outputs |-> <<>>, resources |-> <<>>] }
    \cup { [status |-> "CREATE_IN_PROGRESS", outputs |-> <<>>,
            resources |-> FormatResources(<<BucketResource(rs)>>)] :
            rs \in {"CREATE_IN_PROGRESS", "CREATE_COMPLETE", "CREATE_FAILED"} }
    \cup { [status |-> "CREATE_COMPLETE", outputs |-> BucketOutputs,
            resources |-> FormatResources(<<BucketResource("CREATE_COMPLETE")>>)] }
    \cup { [status |-> "ROLLBACK_IN_PROGRESS", outputs |-> <<>>,
            resources |-> FormatResources(<<BucketResource(rs)>>)] :
            rs \in {"CREATE_FAILED", "DELETE_COMPLETE"} }
    \cup { [status |-> "ROLLBACK_COMPLETE", outputs |-> <<>>,
            resources |-> FormatResources(<<BucketResource("DELETE_COMPLETE")>>)] }

Reported(result) ==
    [status |-> result.status, outputs |-> result.outputs,
     resources |-> result.resources]

\* the backend never leaves the snapshots listed above
BackendWithinSnapshots ==
    \A n \in DOMAIN stacks :
        [status |-> stacks[n].stack.StackStatus,
         outputs |-> FormatOutputs(stacks[n].stack),
         resources |-> FormatResources(stacks[n].resources)] \in BackendSnapshots

\* C12: the status, outputs and resources of a successful get_stack_status
\* result together describe one state the stack has at the backend, also when
\* the backend advances the stack between the two reads.
C12_ResultIsOneBackendState ==
    (ToolDone("status") /\ ToolResult.success) =>
        Reported(ToolResult) \in BackendSnapshots

====
